---- MODULE Spec2Model ----
(***************************************************************************)
(* Model of streamlit/pendulum_perf.py: the parameter fingerprint, the     *)
(* initial-condition generator, the chunked trajectory solver, the         *)
(* st.cache_data stores in front of it and of the plotting function, and   *)
(* the session-state scheduler that decides on every script run whether    *)
(* to recompute or to reuse.  Spec takes a script run as one step,         *)
(* SpecPlot does so at the delays between the two times to live,           *)
(* SpecBurst does so for a burst of rapid changes in auto mode,            *)
(* SpecSteps takes the compute block statement by statement, and SpecPure  *)
(* applies the pure functions to drawn arguments.                          *)
(*                                                                         *)
(* Units.  Wall-clock time is counted in tenths of a second.  Real-valued  *)
(* parameters (epsilon, max_time) and phase-space coordinates are counted  *)
(* in thousandths.  A numpy array is represented by its length.            *)
(***************************************************************************)
EXTENDS Integers, Sequences, FiniteSets, TLC

(***************************************************************************)
(* Program constants                                                       *)
(***************************************************************************)
\* @st.cache_data(ttl=1800) on solve_trajectories_optimized, in seconds
SOLVE_TTL == 1800
\* time_elapsed > 0.5, in tenths of a second
DEBOUNCE == 5
\* len(sol.t) > 10
MIN_POINTS == 10
\* max(50, int(max_time * points_per_unit))
MIN_EVAL_POINTS == 50
\* chunk_size = min(10, num_trajectories)
MAX_CHUNK == 10
\* @st.cache_data(ttl=600) on create_optimized_plots, in seconds
PLOT_TTL == 600
\* initial value of st.session_state.last_computation_time
EPOCH_ZERO == 0
\* the single fixed initial condition [0.1, 0.1], in thousandths
IC_ONE == 100

(***************************************************************************)
(* Bounds of the model                                                     *)
(***************************************************************************)
\* number of script runs of one session that are explored
MaxRuns == 3
\* the same, where a run is explored statement by statement
MaxStepRuns == 2
\* the same, for a burst of changes
MaxBurstRuns == 5
\* wall-clock time of the session's first run (any value > DEBOUNCE, as
\* time.time() is seconds since 1970)
StartTime == 1000
\* largest number of trajectories for which the generator and the solver
\* loop are explored on their own
MaxCount == 12

\* the time-to-live in the clock's unit
SolveTtlTenths == SOLVE_TTL * 10
PlotTtlTenths == PLOT_TTL * 10

\* Python's None, for the values that are either None or a list
None == <<>>
Some(v) == <<v>>
\* Python's None where the other values are strings
NoneStr == "None"

(***************************************************************************)
(* quality_settings and the widget defaults                                *)
(***************************************************************************)
Qualities == {"Fast", "Balanced", "High"}

quality_settings(q) ==
  CASE q = "Fast"     -> [rtol |-> 6, points_per_unit |-> 20, method |-> "RK23"]
    [] q = "Balanced" -> [rtol |-> 7, points_per_unit |-> 30, method |-> "RK45"]
    [] q = "High"     -> [rtol |-> 8, points_per_unit |-> 50, method |-> "DOP853"]

\* value= of the three sliders, the checkbox and the selectbox
DefaultParams ==
  [num_trajectories |-> 8, epsilon |-> 500, max_time |-> 15000,
   computation_quality |-> "Balanced"]

Max(a, b) == IF a >= b THEN a ELSE b
Min(a, b) == IF a <= b THEN a ELSE b

(***************************************************************************)
(* create_params_hash: f"{num_traj}_{eps:.2f}_{max_t:.1f}_{quality}"       *)
(* hashed with MD5.  The text is built character by character.  The        *)
(* digest is modelled as collision-free: hexdigest(s) is a tagged copy of  *)
(* s, so that two fingerprints are equal exactly when the formatted texts  *)
(* are equal.                                                              *)
(***************************************************************************)
Digit(d) ==
  CASE d = 0 -> "0" [] d = 1 -> "1" [] d = 2 -> "2" [] d = 3 -> "3"
    [] d = 4 -> "4" [] d = 5 -> "5" [] d = 6 -> "6" [] d = 7 -> "7"
    [] d = 8 -> "8" [] d = 9 -> "9"

\* str() of a non-negative integer
RECURSIVE NatToStr(_)
NatToStr(n) == IF n < 10 THEN Digit(n) ELSE NatToStr(n \div 10) \o Digit(n % 10)

\* the k low decimal digits of n, zero-padded
RECURSIVE FracDigits(_, _)
FracDigits(n, k) ==
  IF k = 0 THEN "" ELSE FracDigits(n \div 10, k - 1) \o Digit(n % 10)

RECURSIVE Pow10(_)
Pow10(k) == IF k = 0 THEN 1 ELSE 10 * Pow10(k - 1)

\* FormatFixed with one decimal place too many (".3f" for ".2f")
FormatFixed_extra_digit(x, decimals) ==
  LET unit == Pow10(3 - (decimals + 1))
      q == (x + unit \div 2) \div unit
      scale == Pow10(decimals + 1)
  IN NatToStr(q \div scale) \o "." \o FracDigits(q % scale, decimals + 1)

\* format(x, ".<decimals>f") of a non-negative real x given in thousandths:
\* x is rounded to the nearest multiple of 10^-decimals.  (Python rounds
\* the binary value of the float, so the direction of an exact decimal tie
\* depends on that value's representation; no tie is among the inputs.)
FormatFixed(x, decimals) ==
  LET unit == Pow10(3 - decimals)
      q == (x + unit \div 2) \div unit
      scale == Pow10(decimals)
  IN NatToStr(q \div scale) \o "." \o FracDigits(q % scale, decimals)

\* params_str with the quality left out of the text
params_str_without_quality(num_traj, eps, max_t, quality) ==
  NatToStr(num_traj) \o "_" \o FormatFixed(eps, 2) \o "_"
    \o FormatFixed(max_t, 1)

\* params_str with the amplitude left out of the text
params_str_without_amplitude(num_traj, eps, max_t, quality) ==
  NatToStr(num_traj) \o "_" \o FormatFixed(max_t, 1) \o "_" \o quality

params_str(num_traj, eps, max_t, quality) ==
  NatToStr(num_traj) \o "_" \o FormatFixed(eps, 2) \o "_"
    \o FormatFixed(max_t, 1) \o "_" \o quality

hexdigest(s) == "md5:" \o s

create_params_hash(num_traj, eps, max_t, quality) ==
  hexdigest(params_str(num_traj, eps, max_t, quality))

ParamsHash(P) ==
  create_params_hash(P.num_trajectories, P.epsilon, P.max_time,
                     P.computation_quality)

(***************************************************************************)
(* generate_initial_conditions_optimized.  Coordinates in thousandths;     *)
(* the sine is Bhaskara's rational approximation, in integer arithmetic.   *)
(***************************************************************************)
\* golden_ratio = (1 + sqrt(5)) / 2, in thousandths
GOLDEN_RATIO == 1618
\* 2 * np.pi and np.pi, in thousandths
TWO_PI == 6283
PI == 3142
\* the factor of velocities = 3 * np.sin(...)
VEL_SCALE == 3

\* sin of a in [0, 2 pi), both in thousandths
SinMilli(a) ==
  LET B(x) == LET p == x * (PI - x)
              IN (((16 * p) \div 100) * 1000) \div ((5 * PI * PI - 4 * p) \div 100)
  IN IF a <= PI THEN B(a) ELSE 0 - B(a - PI)

\* np.linspace(0, 2 * np.pi, n, endpoint=False)[i]
angles(n, i) == (TWO_PI * i) \div n

\* (2 * np.pi * (i / golden_ratio) % (2 * np.pi)) - np.pi
positions(i) == (((TWO_PI * i * 1000) \div GOLDEN_RATIO) % TWO_PI) - PI

\* 3 * np.sin(angles * golden_ratio)
velocities(n, i) ==
  VEL_SCALE * SinMilli(((angles(n, i) * GOLDEN_RATIO) \div 1000) % TWO_PI)

\* the generator with np.arange / np.linspace one element short
generate_one_short(num_trajectories) ==
  IF num_trajectories <= 1
    THEN << <<IC_ONE, IC_ONE>> >>
    ELSE [k \in 1..(num_trajectories - 1) |->
            <<positions(k - 1), velocities(num_trajectories, k - 1)>>]

\* the generator with the guard "< 1" for "<= 1"
generate_guard_below_one(num_trajectories) ==
  IF num_trajectories < 1
    THEN << <<IC_ONE, IC_ONE>> >>
    ELSE [k \in 1..num_trajectories |->
            <<positions(k - 1), velocities(num_trajectories, k - 1)>>]

generate_initial_conditions_optimized(num_trajectories) ==
  IF num_trajectories <= 1
    THEN << <<IC_ONE, IC_ONE>> >>
    ELSE [k \in 1..num_trajectories |->
            <<positions(k - 1), velocities(num_trajectories, k - 1)>>]

(***************************************************************************)
(* solve_ivp as seen by its caller: it raises, or returns sol with         *)
(* sol.success and len(sol.t).  Which of these happens for the k-th        *)
(* initial condition is the environment's choice; a choice for a whole     *)
(* batch is a named pattern.                                               *)
(***************************************************************************)
\* a pattern names the initial conditions whose call fails and those whose
\* call succeeds with just MIN_POINTS + 1 points; the others succeed in full
Pattern(fails, barely) == [fails |-> fails, barely |-> barely]

\* the kind of outcome of the call for the k-th initial condition (k >= 1)
SolverKind(pat, k) ==
  IF k \in pat.fails
    THEN (IF k % 3 = 2 THEN "raise"
          ELSE IF k % 3 = 0 THEN "unsuccessful" ELSE "short")
    ELSE IF k \in pat.barely THEN "barely" ELSE "ok"

\* num_points = max(50, int(max_time * quality["points_per_unit"]))
num_points(max_time, quality) ==
  Max(MIN_EVAL_POINTS, (max_time * quality.points_per_unit) \div 1000)

\* the value solve_ivp returns (for a kind other than "raise")
solve_ivp(kind, y0, epsilon, max_time, quality) ==
  LET full == num_points(max_time, quality)
      n == CASE kind = "ok" -> full
             [] kind = "barely" -> MIN_POINTS + 1
             [] kind = "short" -> MIN_POINTS
             [] kind = "unsuccessful" -> full \div 2
  IN [success |-> kind # "unsuccessful",
      t |-> n, y0 |-> n, y1 |-> n,
      ode |-> [epsilon |-> epsilon, t_end |-> max_time,
               method |-> quality.method, rtol |-> quality.rtol]]

\* the loop body with the test of pendulum.py: "if sol.success:"
SolveOne_without_threshold(trajectories, kind, y0, epsilon, max_time, quality) ==
  IF kind = "raise"
    THEN trajectories
    ELSE LET sol == solve_ivp(kind, y0, epsilon, max_time, quality)
         IN IF sol.success
              THEN Append(trajectories,
                          [t |-> sol.t, x |-> sol.y0, v |-> sol.y1,
                           initial |-> y0, ode |-> sol.ode])
              ELSE trajectories

\* one pass of the body of "for i, y0 in enumerate(chunk_ics)"
SolveOne(trajectories, kind, y0, epsilon, max_time, quality) ==
  IF kind = "raise"
    THEN trajectories
    ELSE LET sol == solve_ivp(kind, y0, epsilon, max_time, quality)
         IN IF sol.success /\ sol.t > MIN_POINTS
              THEN Append(trajectories,
                          [t |-> sol.t, x |-> sol.y0, v |-> sol.y1,
                           initial |-> y0, ode |-> sol.ode])
              ELSE trajectories

\* the slice with its end included (one element too many)
Slice_inclusive_end(seq, from, to) == SubSeq(seq, from + 1, Min(to + 1, Len(seq)))

\* initial_conditions[chunk_start:chunk_end]
Slice(seq, from, to) == SubSeq(seq, from + 1, Min(to, Len(seq)))

\* the inner loop over one chunk; base is the chunk's offset in the batch
RECURSIVE ChunkLoop(_, _, _, _, _, _, _, _)
ChunkLoop(trajectories, chunk_ics, i, base, pat, epsilon, max_time, quality) ==
  IF i > Len(chunk_ics)
    THEN trajectories
    ELSE ChunkLoop(SolveOne(trajectories, SolverKind(pat, base + i),
                            chunk_ics[i], epsilon, max_time, quality),
                   chunk_ics, i + 1, base, pat, epsilon, max_time, quality)

chunk_size(num_trajectories) == Min(MAX_CHUNK, num_trajectories)

\* range(0, num_trajectories, chunk_size) raises ValueError for a step of 0
range_raises(num_trajectories) == chunk_size(num_trajectories) = 0

\* the outer loop "for chunk_start in range(0, num_trajectories, chunk_size)"
RECURSIVE ChunksLoop(_, _, _, _, _, _, _, _)
ChunksLoop(trajectories, initial_conditions, chunk_start, num_trajectories, pat, epsilon, max_time, quality) ==
  IF chunk_start >= num_trajectories
    THEN trajectories
    ELSE LET chunk_end == Min(chunk_start + chunk_size(num_trajectories),
                              num_trajectories)
             chunk_ics == Slice(initial_conditions, chunk_start, chunk_end)
         IN ChunksLoop(ChunkLoop(trajectories, chunk_ics, 1, chunk_start, pat,
                                 epsilon, max_time, quality),
                       initial_conditions,
                       chunk_start + chunk_size(num_trajectories),
                       num_trajectories, pat, epsilon, max_time, quality)

\* the body of solve_trajectories_optimized (what runs on a cache miss)
solve_trajectories_optimized(num_trajectories, epsilon, max_time, quality_key, pat) ==
  ChunksLoop(<<>>, generate_initial_conditions_optimized(num_trajectories), 0,
             num_trajectories, pat, epsilon, max_time,
             quality_settings(quality_key))

\* the number of initial conditions whose solver call yields no trajectory
FailedCount(n, pat) ==
  Cardinality({k \in 1..n : SolverKind(pat, k) \in {"raise", "unsuccessful", "short"}})

(***************************************************************************)
(* The session.  One script run is one step: the widgets deliver the       *)
(* parameters, the mode and the button; the script decides, computes or    *)
(* reuses, and hands `trajectories` to the display code.                   *)
(***************************************************************************)
VARIABLES
  now,                    \* time.time() at the end of the latest run
  last_computation_time,  \* st.session_state.last_computation_time
  cached_trajectories,    \* st.session_state.cached_trajectories
  cached_params_hash,     \* st.session_state.cached_params_hash
  solve_cache,            \* st.cache_data store of solve_trajectories_optimized
  plot_cache,             \* st.cache_data store of create_optimized_plots
  frame,                  \* the compute block, statement by statement: its
                          \* position and its local variables
  runs,                   \* number of script runs so far
  run,                    \* what the latest run did (observation)
  call,                   \* a call of one of the pure functions: its arguments
  result                  \* None, or what that call returned

vars == <<now, last_computation_time, cached_trajectories, cached_params_hash,
          solve_cache, plot_cache, frame, runs, run, call, result>>

\* the widget states explored: the defaults, the next amplitude of the
\* slider, and a single trajectory at another horizon and quality
ParamChoices ==
  { DefaultParams,
    [DefaultParams EXCEPT !.epsilon = 600],
    [num_trajectories |-> 1, epsilon |-> 500, max_time |-> 17500,
     computation_quality |-> "Fast"] }

\* the solver outcomes explored per batch: all succeed; 3 of the first 8
\* fail (a raise, a non-success, a short result) and one barely passes;
\* all fail
SolverPatterns ==
  { Pattern({}, {}), Pattern({2, 6, 7}, {3}), Pattern(1..MaxCount, {}) }

\* time between the end of a run and the start of the next one
Delays == {DEBOUNCE, DEBOUNCE + 1, SolveTtlTenths}

\* time one execution of the solver body takes
SolveDurations == {3}

\* EntryLive with the comparison the wrong way round
EntryLive_inverted(entry, t) ==
  entry # None /\ t > entry[1].created + SolveTtlTenths

\* EntryLive without the time-to-live
EntryLive_forever(entry, t) == entry # None

\* cachetools.TTLCache under st.cache_data(ttl=...): an entry is returned
\* while timer() < created + ttl
EntryLive(entry, t) == entry # None /\ t < entry[1].created + SolveTtlTenths

\* the entry the lookup finds; an expired one is removed by the lookup
Lookup(key, t) == IF EntryLive(solve_cache[key], t) THEN solve_cache[key] ELSE None

\* should_recompute with ">=" for ">" in the debounce test
should_recompute_at_interval(current_time, P, auto_compute) ==
  LET params_hash == ParamsHash(P)
      params_changed == cached_params_hash # params_hash
      time_elapsed == current_time - last_computation_time
  IN params_changed /\ (time_elapsed >= DEBOUNCE \/ ~auto_compute)

\* should_recompute with an interval ten times as long ("5" for "0.5")
should_recompute_long_interval(current_time, P, auto_compute) ==
  LET params_hash == ParamsHash(P)
      params_changed == cached_params_hash # params_hash
      time_elapsed == current_time - last_computation_time
  IN params_changed /\ (time_elapsed > 10 * DEBOUNCE \/ ~auto_compute)

should_recompute(current_time, P, auto_compute) ==
  LET params_hash == ParamsHash(P)
      params_changed == cached_params_hash # params_hash
      time_elapsed == current_time - last_computation_time
  IN params_changed /\ (time_elapsed > DEBOUNCE \/ ~auto_compute)

\* should_compute without the manual branch: should_recompute in both modes
should_compute_no_manual_branch(current_time, P, auto_compute, compute_button) ==
  should_recompute(current_time, P, auto_compute)

\* should_compute with the button subject to the debounce interval
should_compute_debounced_button(current_time, P, auto_compute, compute_button) ==
  IF ~auto_compute
    THEN compute_button /\ current_time - last_computation_time > DEBOUNCE
    ELSE should_recompute(current_time, P, auto_compute)

should_compute(current_time, P, auto_compute, compute_button) ==
  IF ~auto_compute THEN compute_button
  ELSE should_recompute(current_time, P, auto_compute)

\* the condition without its test for None
EntersCompute_without_none_test(current_time, P, auto_compute, compute_button) ==
  should_compute(current_time, P, auto_compute, compute_button)

\* the condition of "if should_compute or ...cached_trajectories is None"
EntersCompute(current_time, P, auto_compute, compute_button) ==
  should_compute(current_time, P, auto_compute, compute_button)
    \/ cached_trajectories = None

\* st.metric("Cache Status", ...) inside "if trajectories:", st.warning else
CacheStatus(trajectories, sc) ==
  IF trajectories # <<>> THEN (IF sc THEN "Fresh" ELSE "Cached")
  ELSE "NoTrajectories"

\* PlotLive without the time-to-live
PlotLive_forever(entry, t) == TRUE

\* st.cache_data(ttl=600) of create_optimized_plots: as for EntryLive
PlotLive(entry, t) == t < entry.created + PlotTtlTenths

\* the entries of create_optimized_plots for traj_data (linewidth, alpha and
\* max_trajectories, the other parts of the key, stay at their defaults)
PlotEntries(traj_data) == {e \in plot_cache : e.key = traj_data}

\* the lookup of create_optimized_plots(trajectories, ...) finds a live entry
PlotHit(traj_data, t) == \E e \in PlotEntries(traj_data) : PlotLive(e, t)

\* "if trajectories:" fig = create_optimized_plots(trajectories, linewidth,
\* alpha): the store after the call at time t; on a miss the figure is
\* rendered from traj_data and replaces the expired entry
create_optimized_plots(traj_data, t) ==
  IF traj_data = <<>> \/ PlotHit(traj_data, t)
    THEN plot_cache
    ELSE (plot_cache \ PlotEntries(traj_data))
           \cup {[key |-> traj_data, created |-> t]}

\* no call of a pure function is under way
NoCall ==
  [fn |-> "none", p1 |-> DefaultParams, p2 |-> DefaultParams, count |-> 0,
   pat |-> Pattern({}, {})]

\* the compute block is not being executed
NoFrame ==
  [pc |-> "idle", params |-> DefaultParams, pat |-> Pattern({}, {}),
   auto_compute |-> TRUE, compute_button |-> FALSE, chunk_start |-> 0, i |-> 0,
   trajectories |-> <<>>, calls |-> <<>>, shown |-> None, hit |-> FALSE,
   before |-> None]

NoRun ==
  [n |-> 0, params |-> DefaultParams, auto_compute |-> TRUE,
   compute_button |-> FALSE, start |-> 0, end |-> 0, should_compute |-> FALSE,
   entered |-> FALSE, cache_hit |-> FALSE, solved |-> FALSE, raised |-> FALSE,
   solver_calls |-> 0, failed |-> 0, entry |-> None, trajectories |-> None,
   status |-> "NoTrajectories", stored_created |-> EPOCH_ZERO,
   plot_hit |-> FALSE, rendered |-> FALSE, plot_before |-> {},
   before |-> [cached_trajectories |-> None, cached_params_hash |-> NoneStr,
               last_computation_time |-> EPOCH_ZERO],
   prior |-> [params |-> DefaultParams, stored |-> FALSE, solved |-> FALSE,
              raised |-> FALSE, end |-> 0]]

Init ==
  /\ now = StartTime
  /\ last_computation_time = EPOCH_ZERO
  /\ cached_trajectories = None
  /\ cached_params_hash = NoneStr
  /\ solve_cache = [k \in ParamChoices |-> None]
  /\ plot_cache = {}
  /\ frame = NoFrame
  /\ runs = 0
  /\ run = NoRun
  /\ call = NoCall
  /\ result = None

\* what the widgets can deliver: the first run of a session sees the
\* defaults (auto-compute checked); the button exists in manual mode only
WidgetsWithin(limit, dt, P, auto_compute, compute_button) ==
  /\ runs < limit
  /\ auto_compute => ~compute_button
  /\ runs = 0 => (P = DefaultParams /\ auto_compute /\ dt = DEBOUNCE)

Widgets(dt, P, auto_compute, compute_button) ==
  WidgetsWithin(MaxRuns, dt, P, auto_compute, compute_button)

\* the record of a run: the widget values, the times, the path taken, the
\* value handed to the display code and its label, the session state the
\* run started from, and the time at which the batch now held in
\* cached_trajectories was produced by the solver
Observe(t0, t1, P, auto_compute, compute_button, hit, solved, raised, calls, failed, trajectories, created) ==
  LET sc == should_compute(t0, P, auto_compute, compute_button)
  IN [n |-> runs + 1, params |-> P, auto_compute |-> auto_compute,
      compute_button |-> compute_button, start |-> t0, end |-> t1,
      should_compute |-> sc,
      entered |-> EntersCompute(t0, P, auto_compute, compute_button),
      cache_hit |-> hit, solved |-> solved, raised |-> raised,
      solver_calls |-> calls, failed |-> failed,
      entry |-> solve_cache[P], trajectories |-> Some(trajectories),
      status |-> CacheStatus(trajectories, sc), stored_created |-> created,
      plot_hit |-> trajectories # <<>> /\ PlotHit(trajectories, t1),
      rendered |-> trajectories # <<>> /\ ~PlotHit(trajectories, t1),
      plot_before |-> PlotEntries(trajectories),
      before |-> [cached_trajectories |-> cached_trajectories,
                  cached_params_hash |-> cached_params_hash,
                  last_computation_time |-> last_computation_time],
      prior |-> [params |-> run.params, stored |-> run.entered /\ ~run.raised,
                 solved |-> run.solved, raised |-> run.raised,
                 end |-> run.end]]

\* "Update cache" without the assignment of the fingerprint
StoreSession_without_hash(trajectories, P, t) ==
  /\ cached_trajectories' = Some(trajectories)
  /\ last_computation_time' = t
  /\ UNCHANGED cached_params_hash

\* "Update cache": the three assignments to st.session_state, t being the
\* value of time.time() in the last of them
StoreSession(trajectories, P, t) ==
  /\ cached_trajectories' = Some(trajectories)
  /\ cached_params_hash' = ParamsHash(P)
  /\ last_computation_time' = t

\* the paths without "Update cache", the session state set back to its
\* initial values
KeepSession_reset ==
  /\ cached_trajectories' = None
  /\ cached_params_hash' = NoneStr
  /\ last_computation_time' = EPOCH_ZERO

\* the except branch and the else branch assign nothing in st.session_state
KeepSession ==
  UNCHANGED <<last_computation_time, cached_trajectories, cached_params_hash>>

\* the else branch: trajectories = st.session_state.cached_trajectories;
\* "if trajectories:" takes None as it takes the empty list
RunReuseWithin(limit, dt, P, auto_compute, compute_button) ==
  LET t0 == now + dt
      held == IF cached_trajectories = None THEN <<>> ELSE cached_trajectories[1]
  IN /\ WidgetsWithin(limit, dt, P, auto_compute, compute_button)
     /\ ~EntersCompute(t0, P, auto_compute, compute_button)
     /\ now' = t0
     /\ runs' = runs + 1
     /\ UNCHANGED <<call, result, frame>>
     /\ run' = [Observe(t0, t0, P, auto_compute, compute_button, FALSE, FALSE,
                        FALSE, 0, 0, held, run.stored_created)
                  EXCEPT !.trajectories = cached_trajectories]
     /\ plot_cache' = create_optimized_plots(held, t0)
     /\ KeepSession
     /\ UNCHANGED solve_cache

RunReuse(dt, P, auto_compute, compute_button) ==
  RunReuseWithin(MaxRuns, dt, P, auto_compute, compute_button)

\* the compute step answered by st.cache_data without running the body
RunCacheHitWithin(limit, dt, P, auto_compute, compute_button) ==
  LET t0 == now + dt
      entry == Lookup(P, t0)
  IN /\ WidgetsWithin(limit, dt, P, auto_compute, compute_button)
     /\ EntersCompute(t0, P, auto_compute, compute_button)
     /\ entry # None
     /\ now' = t0
     /\ runs' = runs + 1
     /\ UNCHANGED <<call, result, frame>>
     /\ run' = Observe(t0, t0, P, auto_compute, compute_button, TRUE, FALSE,
                       FALSE, 0, 0, entry[1].value, entry[1].created)
     /\ plot_cache' = create_optimized_plots(entry[1].value, t0)
     /\ StoreSession(entry[1].value, P, t0)
     /\ UNCHANGED solve_cache

RunCacheHit(dt, P, auto_compute, compute_button) ==
  RunCacheHitWithin(MaxRuns, dt, P, auto_compute, compute_button)

\* the compute step on a cache miss: the body runs and its result is stored
RunSolveWithin(limit, dt, P, auto_compute, compute_button, pat, d) ==
  LET t0 == now + dt
      t1 == t0 + d
      trajectories ==
        solve_trajectories_optimized(P.num_trajectories, P.epsilon, P.max_time,
                                     P.computation_quality, pat)
  IN /\ WidgetsWithin(limit, dt, P, auto_compute, compute_button)
     /\ EntersCompute(t0, P, auto_compute, compute_button)
     /\ Lookup(P, t0) = None
     /\ now' = t1
     /\ runs' = runs + 1
     /\ UNCHANGED <<call, result, frame>>
     /\ run' = Observe(t0, t1, P, auto_compute, compute_button, FALSE, TRUE,
                       FALSE, P.num_trajectories,
                       FailedCount(P.num_trajectories, pat), trajectories, t1)
     /\ plot_cache' = create_optimized_plots(trajectories, t1)
     /\ solve_cache' = [solve_cache EXCEPT
                          ![P] = Some([value |-> trajectories, created |-> t1])]
     /\ StoreSession(trajectories, P, t1)

RunSolve(dt, P, auto_compute, compute_button, pat, d) ==
  RunSolveWithin(MaxRuns, dt, P, auto_compute, compute_button, pat, d)

\* the compute step on a cache miss, the call raising: the except branch
RunRaiseWithin(limit, dt, P, auto_compute, compute_button, d) ==
  LET t0 == now + dt
      t1 == t0 + d
  IN /\ WidgetsWithin(limit, dt, P, auto_compute, compute_button)
     /\ EntersCompute(t0, P, auto_compute, compute_button)
     /\ Lookup(P, t0) = None
     /\ now' = t1
     /\ runs' = runs + 1
     /\ UNCHANGED <<call, result, frame>>
     /\ run' = Observe(t0, t1, P, auto_compute, compute_button, FALSE, FALSE,
                       TRUE, 0, 0, <<>>, run.stored_created)
     /\ plot_cache' = create_optimized_plots(<<>>, t1)
     /\ solve_cache' = [solve_cache EXCEPT ![P] = None]
     /\ KeepSession

RunRaise(dt, P, auto_compute, compute_button, d) ==
  RunRaiseWithin(MaxRuns, dt, P, auto_compute, compute_button, d)

Next ==
  \/ \E dt \in Delays, P \in ParamChoices, a \in BOOLEAN, b \in BOOLEAN :
        RunReuse(dt, P, a, b)
  \/ \E dt \in Delays, P \in ParamChoices, a \in BOOLEAN, b \in BOOLEAN :
        RunCacheHit(dt, P, a, b)
  \/ \E dt \in Delays, P \in ParamChoices, a \in BOOLEAN, b \in BOOLEAN,
         pat \in SolverPatterns, d \in SolveDurations :
        RunSolve(dt, P, a, b, pat, d)
  \/ \E dt \in Delays, P \in ParamChoices, a \in BOOLEAN, b \in BOOLEAN,
         d \in SolveDurations :
        RunRaise(dt, P, a, b, d)

Spec == Init /\ [][Next]_vars

(***************************************************************************)
(* The same script runs at the delays that separate the two times to live: *)
(* a run can come after the figure's entry has expired and before the      *)
(* batch's entry has.                                                      *)
(***************************************************************************)
PlotDelays == {DEBOUNCE, PlotTtlTenths, SolveTtlTenths}

NextPlot ==
  \/ \E dt \in PlotDelays, P \in ParamChoices, a \in BOOLEAN, b \in BOOLEAN :
        RunReuse(dt, P, a, b)
  \/ \E dt \in PlotDelays, P \in ParamChoices, a \in BOOLEAN, b \in BOOLEAN :
        RunCacheHit(dt, P, a, b)
  \/ \E dt \in PlotDelays, P \in ParamChoices, a \in BOOLEAN, b \in BOOLEAN,
         pat \in SolverPatterns, d \in SolveDurations :
        RunSolve(dt, P, a, b, pat, d)
  \/ \E dt \in PlotDelays, P \in ParamChoices, a \in BOOLEAN, b \in BOOLEAN,
         d \in SolveDurations :
        RunRaise(dt, P, a, b, d)

SpecPlot == Init /\ [][NextPlot]_vars

(***************************************************************************)
(* A burst of changes in auto mode: after the first run of the session,    *)
(* every run has other parameters than the run before it and starts less   *)
(* than the minimum interval after that run ended.                         *)
(***************************************************************************)
BurstDelays == {1, 2, DEBOUNCE - 1}

Burst(dt, P) == runs = 0 \/ (dt \in BurstDelays /\ P # run.params)

NextBurst ==
  \/ \E dt \in BurstDelays \cup {DEBOUNCE}, P \in ParamChoices :
        Burst(dt, P) /\ RunReuseWithin(MaxBurstRuns, dt, P, TRUE, FALSE)
  \/ \E dt \in BurstDelays \cup {DEBOUNCE}, P \in ParamChoices :
        Burst(dt, P) /\ RunCacheHitWithin(MaxBurstRuns, dt, P, TRUE, FALSE)
  \/ \E dt \in BurstDelays \cup {DEBOUNCE}, P \in ParamChoices,
         pat \in SolverPatterns, d \in SolveDurations :
        Burst(dt, P) /\ RunSolveWithin(MaxBurstRuns, dt, P, TRUE, FALSE, pat, d)
  \/ \E dt \in BurstDelays \cup {DEBOUNCE}, P \in ParamChoices,
         d \in SolveDurations :
        Burst(dt, P) /\ RunRaiseWithin(MaxBurstRuns, dt, P, TRUE, FALSE, d)

SpecBurst == Init /\ [][NextBurst]_vars

(***************************************************************************)
(* The compute block statement by statement.  frame.pc is the position of  *)
(* the script: "idle" before the first run, "loop" inside the body of      *)
(* solve_trajectories_optimized, "returned" after its call, "stored"       *)
(* after "Update cache", "shown" at the end of the run.  frame.trajectories*)
(* is the local list, frame.calls the indices of the solver calls made,    *)
(* frame.shown the value of `trajectories` the display code gets.          *)
(***************************************************************************)
StepWidgets(dt, P, auto_compute, compute_button) ==
  /\ frame.pc \in {"idle", "shown"}
  /\ runs < MaxStepRuns
  /\ auto_compute => ~compute_button
  /\ runs = 0 => (P = DefaultParams /\ auto_compute /\ dt = DEBOUNCE)

Enter(pc, P, pat, auto_compute, compute_button, trajectories, shown, hit) ==
  [pc |-> pc, params |-> P, pat |-> pat, auto_compute |-> auto_compute,
   compute_button |-> compute_button, chunk_start |-> 0, i |-> 1,
   trajectories |-> trajectories, calls |-> <<>>, shown |-> shown,
   hit |-> hit, before |-> cached_trajectories]

\* the script up to the else branch and the display code
StepReuse(dt, P, auto_compute, compute_button) ==
  LET t0 == now + dt
      held == IF cached_trajectories = None THEN <<>> ELSE cached_trajectories[1]
  IN /\ StepWidgets(dt, P, auto_compute, compute_button)
     /\ ~EntersCompute(t0, P, auto_compute, compute_button)
     /\ now' = t0
     /\ runs' = runs + 1
     /\ frame' = Enter("shown", P, Pattern({}, {}), auto_compute,
                       compute_button, held, cached_trajectories, FALSE)
     /\ plot_cache' = create_optimized_plots(held, t0)
     /\ KeepSession
     /\ UNCHANGED <<solve_cache, run, call, result>>

\* the script up to the call of solve_trajectories_optimized, which
\* st.cache_data answers
StepHit(dt, P, auto_compute, compute_button) ==
  LET t0 == now + dt
      entry == Lookup(P, t0)
  IN /\ StepWidgets(dt, P, auto_compute, compute_button)
     /\ EntersCompute(t0, P, auto_compute, compute_button)
     /\ entry # None
     /\ now' = t0
     /\ runs' = runs + 1
     /\ frame' = Enter("returned", P, Pattern({}, {}), auto_compute,
                       compute_button, entry[1].value, None, TRUE)
     /\ KeepSession
     /\ UNCHANGED <<solve_cache, plot_cache, run, call, result>>

\* the script up to "trajectories = []" in the body of
\* solve_trajectories_optimized, after a miss
StepBegin(dt, P, auto_compute, compute_button, pat) ==
  LET t0 == now + dt
  IN /\ StepWidgets(dt, P, auto_compute, compute_button)
     /\ EntersCompute(t0, P, auto_compute, compute_button)
     /\ Lookup(P, t0) = None
     /\ now' = t0
     /\ runs' = runs + 1
     /\ frame' = Enter("loop", P, pat, auto_compute, compute_button, <<>>,
                       None, FALSE)
     /\ solve_cache' = [solve_cache EXCEPT ![P] = None]
     /\ KeepSession
     /\ UNCHANGED <<plot_cache, run, call, result>>

\* the chunk the loop is in
ChunkIcs ==
  LET n == frame.params.num_trajectories
  IN Slice(generate_initial_conditions_optimized(n), frame.chunk_start,
           Min(frame.chunk_start + chunk_size(n), n))

\* one pass of the loop body that also assigns the list built so far to
\* st.session_state.cached_trajectories
StepSolve_publishing ==
  LET P == frame.params
      tr == SolveOne(frame.trajectories,
                     SolverKind(frame.pat, frame.chunk_start + frame.i),
                     ChunkIcs[frame.i], P.epsilon, P.max_time,
                     quality_settings(P.computation_quality))
  IN /\ frame.pc = "loop"
     /\ frame.chunk_start < P.num_trajectories
     /\ frame.i <= Len(ChunkIcs)
     /\ frame' = [frame EXCEPT !.trajectories = tr, !.i = @ + 1,
                               !.calls = Append(@, frame.chunk_start + frame.i)]
     /\ cached_trajectories' = Some(tr)
     /\ UNCHANGED <<now, last_computation_time, cached_params_hash,
                    solve_cache, plot_cache, runs, run, call, result>>

\* one pass of the body of "for i, y0 in enumerate(chunk_ics)"
StepSolve ==
  LET P == frame.params
  IN /\ frame.pc = "loop"
     /\ frame.chunk_start < P.num_trajectories
     /\ frame.i <= Len(ChunkIcs)
     /\ frame' = [frame EXCEPT
                    !.trajectories =
                       SolveOne(@, SolverKind(frame.pat, frame.chunk_start + frame.i),
                                ChunkIcs[frame.i], P.epsilon, P.max_time,
                                quality_settings(P.computation_quality)),
                    !.i = @ + 1,
                    !.calls = Append(@, frame.chunk_start + frame.i)]
     /\ KeepSession
     /\ UNCHANGED <<now, solve_cache, plot_cache, runs, run, call, result>>

\* the inner loop is exhausted: the next value of chunk_start
StepNextChunk ==
  /\ frame.pc = "loop"
  /\ frame.chunk_start < frame.params.num_trajectories
  /\ frame.i > Len(ChunkIcs)
  /\ frame' = [frame EXCEPT
                 !.chunk_start = @ + chunk_size(frame.params.num_trajectories),
                 !.i = 1]
  /\ KeepSession
  /\ UNCHANGED <<now, solve_cache, plot_cache, runs, run, call, result>>

\* "return trajectories": st.cache_data stores the returned list
StepReturn(d) ==
  /\ frame.pc = "loop"
  /\ frame.chunk_start >= frame.params.num_trajectories
  /\ now' = now + d
  /\ frame' = [frame EXCEPT !.pc = "returned"]
  /\ solve_cache' =
       [solve_cache EXCEPT
          ![frame.params] = Some([value |-> frame.trajectories, created |-> now'])]
  /\ KeepSession
  /\ UNCHANGED <<plot_cache, runs, run, call, result>>

\* the call raises before its loop starts: the except branch
StepRaise(d) ==
  /\ frame.pc = "loop"
  /\ frame.chunk_start = 0
  /\ frame.i = 1
  /\ now' = now + d
  /\ frame' = [frame EXCEPT !.pc = "shown", !.shown = Some(<<>>)]
  /\ KeepSession
  /\ UNCHANGED <<solve_cache, plot_cache, runs, run, call, result>>

\* "Update cache"
StepStore ==
  /\ frame.pc = "returned"
  /\ frame' = [frame EXCEPT !.pc = "stored"]
  /\ StoreSession(frame.trajectories, frame.params, now)
  /\ UNCHANGED <<now, solve_cache, plot_cache, runs, run, call, result>>

\* "if trajectories:" and the display code
StepShow ==
  /\ frame.pc = "stored"
  /\ frame' = [frame EXCEPT !.pc = "shown", !.shown = Some(frame.trajectories)]
  /\ plot_cache' = create_optimized_plots(frame.trajectories, now)
  /\ KeepSession
  /\ UNCHANGED <<now, solve_cache, runs, run, call, result>>

NextSteps ==
  \/ \E dt \in Delays, P \in ParamChoices, a \in BOOLEAN, b \in BOOLEAN :
        StepReuse(dt, P, a, b)
  \/ \E dt \in Delays, P \in ParamChoices, a \in BOOLEAN, b \in BOOLEAN :
        StepHit(dt, P, a, b)
  \/ \E dt \in Delays, P \in ParamChoices, a \in BOOLEAN, b \in BOOLEAN,
         pat \in SolverPatterns :
        StepBegin(dt, P, a, b, pat)
  \/ StepSolve
  \/ StepNextChunk
  \/ \E d \in SolveDurations : StepReturn(d)
  \/ \E d \in SolveDurations : StepRaise(d)
  \/ StepStore
  \/ StepShow

SpecSteps == Init /\ [][NextSteps]_vars

(***************************************************************************)
(* The pure functions on their own: a call is drawn with its arguments,    *)
(* and one step applies the function.                                      *)
(***************************************************************************)
\* amplitudes and horizons in thousandths: values the sliders present
\* (amplitude 0.0..2.0 step 0.1, horizon 5.0..50.0 step 2.5) and values
\* between them, on either side of a rounding boundary
HashCounts == {1, 8, 5000}
HashAmplitudes == {0, 4, 6, 500, 600, 2000}
HashHorizons == {5000, 5040, 5060, 7500, 50000}

HashParams ==
  [num_trajectories : HashCounts, epsilon : HashAmplitudes,
   max_time : HashHorizons, computation_quality : Qualities]

\* what the sliders can present, among HashParams
SliderParams ==
  {P \in HashParams : P.epsilon % 100 = 0 /\ P.max_time % 2500 = 0}

\* parameter sets outside the ranges of the sliders: a count below 1, a
\* horizon of 0, and both
InvalidParams ==
  { [DefaultParams EXCEPT !.num_trajectories = 0],
    [DefaultParams EXCEPT !.max_time = 0],
    [DefaultParams EXCEPT !.num_trajectories = 0, !.max_time = 0] }

\* the solver outcomes explored for a batch solved on its own: those of the
\* script runs, and failures on either side of the first chunk's end
PureSolverPatterns == SolverPatterns \cup {Pattern({10, 11}, {12})}

session_unchanged ==
  UNCHANGED <<now, last_computation_time, cached_trajectories,
              cached_params_hash, solve_cache, plot_cache, frame, runs, run>>

InitPure ==
  /\ now = StartTime
  /\ last_computation_time = EPOCH_ZERO
  /\ cached_trajectories = None
  /\ cached_params_hash = NoneStr
  /\ solve_cache = [k \in ParamChoices |-> None]
  /\ plot_cache = {}
  /\ frame = NoFrame
  /\ runs = 0
  /\ run = NoRun
  /\ result = None
  /\ \/ \E P1 \in HashParams, P2 \in HashParams :
          call = [fn |-> "create_params_hash", p1 |-> P1, p2 |-> P2,
                  count |-> 0, pat |-> Pattern({}, {})]
     \/ \E P \in InvalidParams :
          call = [fn |-> "create_params_hash", p1 |-> P, p2 |-> P,
                  count |-> 0, pat |-> Pattern({}, {})]
     \/ \E n \in 1..MaxCount, P \in ParamChoices :
          call = [fn |-> "generate_initial_conditions_optimized",
                  p1 |-> P, p2 |-> P, count |-> n, pat |-> Pattern({}, {})]
     \/ \E n \in 0..MaxCount, P \in ParamChoices, pat \in PureSolverPatterns :
          call = [fn |-> "solve_trajectories_optimized",
                  p1 |-> P, p2 |-> P, count |-> n, pat |-> pat]

\* create_params_hash applied to each of the two parameter sets
CallHash ==
  /\ call.fn = "create_params_hash"
  /\ result = None
  /\ result' = Some(<<ParamsHash(call.p1), ParamsHash(call.p2)>>)
  /\ UNCHANGED call
  /\ session_unchanged

\* generate_initial_conditions_optimized applied to the count
CallGenerate ==
  /\ call.fn = "generate_initial_conditions_optimized"
  /\ result = None
  /\ result' = Some(generate_initial_conditions_optimized(call.count))
  /\ UNCHANGED call
  /\ session_unchanged

\* the body of solve_trajectories_optimized applied to the count and to the
\* amplitude, horizon and quality of p1: it raises, or returns the batch
CallSolve ==
  /\ call.fn = "solve_trajectories_optimized"
  /\ result = None
  /\ result' =
       Some([raised |-> range_raises(call.count),
             value |-> IF range_raises(call.count) THEN <<>>
                       ELSE solve_trajectories_optimized(
                              call.count, call.p1.epsilon, call.p1.max_time,
                              call.p1.computation_quality, call.pat)])
  /\ UNCHANGED call
  /\ session_unchanged

NextPure == CallHash \/ CallGenerate \/ CallSolve

SpecPure == InitPure /\ [][NextPure]_vars

(***************************************************************************)
(* Properties.  `run` describes the latest script run and the session      *)
(* variables hold the state that run left; run.before is the session       *)
(* state it started from and run.prior summarises the run before it.       *)
(***************************************************************************)
Fingerprint(P) == ParamsHash(P)
Presented == run.trajectories[1]
Expired(entry, t) == entry # None /\ t > entry[1].created + SolveTtlTenths

\* the latest run is an auto-mode run with another fingerprint than the
\* run before it, which computed and stored, and it starts no more than
\* the minimum interval after that computation finished
C1_Case ==
  /\ run.n >= 2
  /\ run.auto_compute
  /\ run.prior.stored
  /\ Fingerprint(run.params) # Fingerprint(run.prior.params)
  /\ run.start - run.prior.end <= DEBOUNCE

\* C1: in auto mode, a run whose fingerprint differs from that of the run
\* before it and that starts no more than the minimum interval (0.5 s)
\* after that run's computation finished does not invoke the solver and
\* hands the earlier run's stored batch to the display code.
C1_DebouncedRunReusesBatch ==
  C1_Case =>
    /\ ~run.entered
    /\ run.solver_calls = 0
    /\ ~run.solved
    /\ run.trajectories = run.before.cached_trajectories
    /\ run.before.cached_params_hash = Fingerprint(run.prior.params)
    /\ run.before.last_computation_time = run.prior.end

C1_Witness ==
  /\ C1_Case
  /\ run.prior.solved
  /\ run.start - run.prior.end = DEBOUNCE
  /\ ~run.entered
  /\ Len(Presented) > 0

\* the run before the latest one computed and stored its batch, the latest
\* run has the same parameters and starts before the entry's TTL expires
C2_Case ==
  /\ run.n >= 2
  /\ run.prior.stored
  /\ run.params = run.prior.params
  /\ run.entry # None
  /\ run.start < run.entry[1].created + SolveTtlTenths

\* C2: if a run has computed and stored its batch and the next run (auto
\* or manual, triggered or not) has the same parameters and happens before
\* the trajectory TTL expires, the next run presents the identical batch
\* and does not invoke the solver, so that the solver body ran once for
\* the two runs if it ran in the first.
C2_RepeatedRunIsCacheHit ==
  C2_Case =>
    /\ run.solver_calls = 0
    /\ ~run.solved
    /\ ~run.raised
    /\ run.trajectories = run.before.cached_trajectories
    /\ Presented = run.entry[1].value
    /\ cached_trajectories = run.before.cached_trajectories

C2_Witness ==
  /\ C2_Case
  /\ run.prior.solved
  /\ ~run.auto_compute
  /\ run.compute_button
  /\ run.cache_hit
  /\ Len(Presented) > 0

\* the latest run is a manual-mode run without the button, after a change
\* of parameters, in a session that holds a stored batch
C3_Case ==
  /\ run.n >= 2
  /\ ~run.auto_compute
  /\ ~run.compute_button
  /\ run.params # run.prior.params
  /\ run.before.cached_trajectories # None

\* C3: in manual mode, a run that follows a parameter change and carries
\* no compute trigger performs no recomputation, leaves the stored batch,
\* the stored fingerprint, the last-computation timestamp and the function
\* cache unchanged, and presents the previously stored batch.
C3_ManualUntriggeredRunChangesNothing ==
  C3_Case =>
    /\ ~run.entered
    /\ run.solver_calls = 0
    /\ ~run.cache_hit
    /\ run.trajectories = run.before.cached_trajectories
    /\ cached_trajectories = run.before.cached_trajectories
    /\ cached_params_hash = run.before.cached_params_hash
    /\ last_computation_time = run.before.last_computation_time
    /\ solve_cache[run.params] = run.entry

C3_Witness ==
  /\ C3_Case
  /\ Fingerprint(run.params) # cached_params_hash
  /\ run.start - last_computation_time > DEBOUNCE
  /\ Len(Presented) > 0

\* C4 as stated: a batch created at time c is never handed on as a reused,
\* non-recomputed result by a run at a time later than c + T.
C4_NoReuseAfterTtl ==
  (/\ run.n >= 1
   /\ Fingerprint(run.params) = run.before.cached_params_hash
   /\ ~run.solved
   /\ ~run.raised) =>
    run.start <= run.stored_created + SolveTtlTenths

\* C4 (amended): the function-cache entry of a batch created at time c is
\* never returned by the compute step of a run at a time later than c + T:
\* such a run misses and runs the solver body again; what a cache hit
\* hands on is no older than T.
C4_ComputeStepMissesAfterTtl ==
  /\ (run.entered /\ Expired(run.entry, run.start)) =>
        (~run.cache_hit /\ (run.solved \/ run.raised))
  /\ run.cache_hit =>
        (Presented = run.entry[1].value
          /\ run.start <= run.stored_created + SolveTtlTenths)

C4_Witness ==
  /\ run.entered
  /\ Expired(run.entry, run.start)
  /\ run.solved
  /\ run.params = run.prior.params
  /\ solve_cache[run.params][1].created = run.end

\* |a - b|
Dist(a, b) == IF a >= b THEN a - b ELSE b - a

\* the multiple of `unit` nearest to x, counted in units: of the two
\* multiples around x the one at the smaller distance (x in thousandths,
\* not half-way between them)
Nearest(x, unit) ==
  LET below == x \div unit
      above == below + 1
  IN IF Dist(below * unit, x) <= Dist(above * unit, x) THEN below ELSE above

\* amplitude reduced to 2 decimals, horizon reduced to 1 decimal
Amplitude2(P) == Nearest(P.epsilon, 10)
Horizon1(P) == Nearest(P.max_time, 100)

HashCalled == call.fn = "create_params_hash" /\ result # None
Hash1 == result[1][1]
Hash2 == result[1][2]

\* the two parameter sets agree after the reduction
C5_Case ==
  /\ HashCalled
  /\ call.p1.num_trajectories = call.p2.num_trajectories
  /\ call.p1.computation_quality = call.p2.computation_quality
  /\ Amplitude2(call.p1) = Amplitude2(call.p2)
  /\ Horizon1(call.p1) = Horizon1(call.p2)

\* C5: two parameter sets with the same count and quality whose amplitudes
\* agree after rounding to 2 decimals and whose horizons agree after
\* rounding to 1 decimal have the same create_params_hash.
C5_SameReductionSameHash == C5_Case => Hash1 = Hash2

C5_Witness ==
  /\ C5_Case
  /\ call.p1.epsilon # call.p2.epsilon
  /\ call.p1.max_time # call.p2.max_time
  /\ Hash1 = Hash2

\* C6 as stated: parameter sets that differ in count, in amplitude beyond
\* the 2-decimal rounding, in horizon, or in quality have different hashes.
C6_AnyHorizonDifferenceChangesHash ==
  (/\ HashCalled
   /\ \/ call.p1.num_trajectories # call.p2.num_trajectories
      \/ Amplitude2(call.p1) # Amplitude2(call.p2)
      \/ call.p1.max_time # call.p2.max_time
      \/ call.p1.computation_quality # call.p2.computation_quality)
  => Hash1 # Hash2

\* the two parameter sets differ in a field, beyond the rounding
C6_Case ==
  /\ HashCalled
  /\ \/ call.p1.num_trajectories # call.p2.num_trajectories
     \/ Amplitude2(call.p1) # Amplitude2(call.p2)
     \/ Horizon1(call.p1) # Horizon1(call.p2)
     \/ call.p1.computation_quality # call.p2.computation_quality

\* C6 (amended): parameter sets that differ in count, in amplitude beyond
\* the 2-decimal rounding, in horizon beyond the 1-decimal rounding, or in
\* quality have different hashes; in particular two distinct combinations
\* the sliders can present have different hashes.
C6_DifferentReductionDifferentHash ==
  /\ C6_Case => Hash1 # Hash2
  /\ (/\ HashCalled
      /\ call.p1 \in SliderParams
      /\ call.p2 \in SliderParams
      /\ call.p1 # call.p2) => Hash1 # Hash2

C6_Witness ==
  /\ C6_Case
  /\ call.p1 \in SliderParams
  /\ call.p2 \in SliderParams
  /\ call.p1.num_trajectories = call.p2.num_trajectories
  /\ call.p1.epsilon = call.p2.epsilon
  /\ call.p1.computation_quality = call.p2.computation_quality
  /\ Horizon1(call.p1) # Horizon1(call.p2)
  /\ Hash1 # Hash2

\* the index in seq of its element y
IndexOf(seq, y) == CHOOSE k \in 1..Len(seq) : seq[k] = y

\* the latest run ran the solver body and not every call failed
C7_Case ==
  /\ run.solved
  /\ run.failed < run.solver_calls

\* the batch holds one trajectory per call that did not fail, in the order
\* of the initial conditions
C7_Entries ==
  C7_Case =>
    LET ics == generate_initial_conditions_optimized(run.params.num_trajectories)
    IN /\ run.solver_calls = Len(ics)
       /\ Len(Presented) = run.solver_calls - run.failed
       /\ \A j \in 1..Len(Presented) :
             \E k \in 1..Len(ics) : ics[k] = Presented[j].initial
       /\ \A i, j \in 1..Len(Presented) :
             i < j => IndexOf(ics, Presented[i].initial)
                        < IndexOf(ics, Presented[j].initial)

\* C7: a batch computation over M initial conditions in which k < M solver
\* calls fail returns exactly M - k entries, in the order of their initial
\* conditions, and the run's status is Fresh.
C7_PartialBatchIsFresh ==
  /\ C7_Entries
  /\ C7_Case => run.status = "Fresh"

GenerateCalled ==
  call.fn = "generate_initial_conditions_optimized" /\ result # None
Generated == result[1]

\* C8: for every count >= 1 the generator returns exactly count pairs (its
\* result is a function of the count, its only argument).
C8_GeneratesCountPairs ==
  GenerateCalled =>
    /\ Len(Generated) = call.count
    /\ \A k \in 1..Len(Generated) : Len(Generated[k]) = 2

C8_Witness ==
  /\ GenerateCalled
  /\ call.count = MAX_CHUNK + 1
  /\ call.p1 # DefaultParams
  /\ Len(Generated) = MAX_CHUNK + 1

\* C9: generate(1) is exactly the one-element sequence [(0.1, 0.1)].
C9_SingleFixedPair ==
  (GenerateCalled /\ call.count = 1) => Generated = << <<IC_ONE, IC_ONE>> >>

C9_Witness ==
  /\ GenerateCalled
  /\ call.count = 1
  /\ Generated = << <<IC_ONE, IC_ONE>> >>

\* the latest run is a manual-mode run with the button pressed
C10_Case ==
  /\ run.n >= 1
  /\ ~run.auto_compute
  /\ run.compute_button

\* C10: a triggered run enters the compute step however little time has
\* passed since the last computation, and when an unexpired function-cache
\* entry exists for its parameters the solver is not invoked and the
\* cached batch is returned.
C10_TriggerBypassesDebounceNotCache ==
  C10_Case =>
    /\ run.entered
    /\ (run.entry # None /\ run.start < run.entry[1].created + SolveTtlTenths) =>
          /\ run.cache_hit
          /\ run.solver_calls = 0
          /\ ~run.solved
          /\ Presented = run.entry[1].value

C10_Witness ==
  /\ C10_Case
  /\ run.before.cached_trajectories # None
  /\ Fingerprint(run.params) # run.before.cached_params_hash
  /\ run.start - run.before.last_computation_time <= DEBOUNCE
  /\ run.cache_hit
  /\ Presented = run.entry[1].value

\* a ParameterSet outside count >= 1, horizon > 0
Invalid(P) == P.num_trajectories < 1 \/ P.max_time <= 0

SolveCalled == call.fn = "solve_trajectories_optimized" /\ result # None
Solved == result[1].value

RECURSIVE UnchunkedLoop(_, _, _, _, _)
UnchunkedLoop(trajectories, ics, k, pat, P) ==
  IF k > Len(ics)
    THEN trajectories
    ELSE UnchunkedLoop(SolveOne(trajectories, SolverKind(pat, k), ics[k],
                                P.epsilon, P.max_time,
                                quality_settings(P.computation_quality)),
                       ics, k + 1, pat, P)

\* the initial conditions of the trajectories of a batch, in its order
Initials(batch) == [k \in 1..Len(batch) |-> batch[k].initial]

\* C13: for every count >= 1 the chunked loop returns the batch of the
\* unchunked loop over the same initial conditions with the same per-item
\* outcomes: one entry per call that did not fail, and, when no call
\* fails, the initial conditions 0..count-1 each once and in order.
C13_ChunkingHasNoEffect ==
  (SolveCalled /\ call.count >= 1) =>
    LET ics == generate_initial_conditions_optimized(call.count)
    IN /\ ~result[1].raised
       /\ Solved = UnchunkedLoop(<<>>, ics, 1, call.pat, call.p1)
       /\ Len(Solved) = call.count - FailedCount(call.count, call.pat)
       /\ call.pat.fails = {} => Initials(Solved) = ics

C13_Witness ==
  /\ SolveCalled
  /\ call.count > MAX_CHUNK + 1
  /\ call.pat = Pattern({MAX_CHUNK, MAX_CHUNK + 1}, {MAX_CHUNK + 2})
  /\ Len(Solved) = call.count - 2
  /\ Solved[MAX_CHUNK].t = MIN_POINTS + 1
  /\ LET ics == generate_initial_conditions_optimized(call.count)
     IN \A j, k \in 1..Len(ics) : j # k => ics[j] # ics[k]

Statuses == {"Fresh", "Cached", "NoTrajectories"}

\* C12: every run hands a defined batch, possibly empty, and a status to
\* the display code, never None; the empty batch goes with the
\* no-trajectories notice; and a computation that raised is not cached, so
\* that a later run entering the compute step runs the solver body again.
C12_RunPresentsDefinedBatch ==
  /\ run.n >= 1 =>
        /\ run.trajectories # None
        /\ run.status \in Statuses
        /\ (run.status = "NoTrajectories") = (Presented = <<>>)
        /\ run.raised => Presented = <<>>
  /\ (run.n >= 2 /\ run.prior.raised /\ run.entered) =>
        (~run.cache_hit \/ run.params # run.prior.params)

\* a run that computes a batch right after two runs that failed
C12_Witness ==
  /\ run.n = 3
  /\ run.prior.raised
  /\ run.before.cached_trajectories = None
  /\ ~run.auto_compute
  /\ ~run.compute_button
  /\ run.params = run.prior.params
  /\ run.solved
  /\ Len(Presented) > 0

\* the latest run is a manual-mode run
C14_Case == run.n >= 1 /\ ~run.auto_compute

\* C14 as stated: in manual mode a run enters the compute step only if the
\* compute trigger was given in that run, also when nothing is stored yet.
C14_ManualComputesOnlyOnTrigger ==
  C14_Case => (run.entered => run.compute_button)

\* C14 (amended): in manual mode a run enters the compute step only if the
\* compute trigger was given in that run or the session holds no batch
\* (cached_trajectories is None); with a batch stored and no trigger the
\* solver is not invoked.
C14_ManualComputesOnTriggerOrNothingStored ==
  C14_Case =>
    /\ run.entered =>
          (run.compute_button \/ run.before.cached_trajectories = None)
    /\ (~run.compute_button /\ run.before.cached_trajectories # None) =>
          (run.solver_calls = 0 /\ ~run.solved /\ ~run.raised)

C14_Witness ==
  /\ C14_Case
  /\ ~run.compute_button
  /\ run.before.cached_trajectories = None
  /\ run.entered
  /\ run.solved

\* the latest run's computation failed totally: it raised, or the solver
\* body ran and every call failed
TotalFailure == run.raised \/ (run.solved /\ run.failed = run.solver_calls)

\* the part of C15 about a batch whose calls all failed
C15_AllFailedAdvances ==
  (run.solved /\ run.failed = run.solver_calls) =>
    /\ Presented = <<>>
    /\ run.status = "NoTrajectories"
    /\ last_computation_time = run.end

\* C15: a run whose computation fails totally (every trajectory fails, or
\* the computation as a whole raises) presents an empty batch with the
\* no-trajectories notice and advances last_computation_time to the time
\* of that run, and the next run with the same parameters, not triggered,
\* does not enter the compute step.
C15_TotalFailureAdvancesTimestamp ==
  /\ (run.n >= 1 /\ TotalFailure) =>
        /\ Presented = <<>>
        /\ run.status = "NoTrajectories"
        /\ last_computation_time = run.end
  /\ (/\ run.n >= 2
      /\ run.prior.raised \/ (run.prior.solved /\ run.before.cached_trajectories = Some(<<>>))
      /\ run.params = run.prior.params
      /\ ~run.compute_button) => ~run.entered

\* the latest run's computation succeeded: the call of
\* solve_trajectories_optimized returned
C16_Case == run.n >= 1 /\ run.entered /\ ~run.raised

\* C16: when a run's computation succeeds, at the end of the run the
\* stored batch is the batch just computed, the stored fingerprint is that
\* of the run's parameters, last_computation_time is the time at which the
\* computation completed, and the same batch is presented.
C16_SuccessStoresWhatItPresents ==
  C16_Case =>
    /\ cached_trajectories = run.trajectories
    /\ cached_params_hash = Fingerprint(run.params)
    /\ last_computation_time = run.end
    /\ run.solved =>
          (solve_cache[run.params] = Some([value |-> Presented, created |-> run.end]))

C16_Witness ==
  /\ C16_Case
  /\ run.solved
  /\ run.n >= 2
  /\ run.before.cached_params_hash # Fingerprint(run.params)
  /\ run.before.cached_trajectories # None
  /\ run.end > run.start
  /\ run.failed > 0
  /\ Len(Presented) > 0

SchedulerState == <<cached_params_hash, last_computation_time>>
SchedulerStateBefore ==
  <<run.before.cached_params_hash, run.before.last_computation_time>>

\* C17 as stated: SchedulerState starts as (empty, epoch-zero) and is
\* changed only by a run that performed a successful recomputation with
\* the solver.
C17_ChangedOnlyBySolverRun ==
  /\ runs = 0 => SchedulerState = <<NoneStr, EPOCH_ZERO>>
  /\ (run.n >= 1 /\ ~run.solved) => SchedulerState = SchedulerStateBefore

\* C17 (amended): SchedulerState starts as (empty, epoch-zero) and is
\* changed only by a run whose call of solve_trajectories_optimized
\* returned, from the solver body or from the function cache: runs that
\* take the else branch (debounced, unchanged or untriggered) and runs
\* whose computation raises leave both fields unchanged, and no run sets
\* them back to their initial values.
C17_ChangedOnlyByReturnedComputation ==
  /\ runs = 0 => SchedulerState = <<NoneStr, EPOCH_ZERO>>
  /\ (run.n >= 1 /\ (~run.entered \/ run.raised)) =>
        SchedulerState = SchedulerStateBefore
  /\ (run.n >= 1 /\ SchedulerStateBefore # <<NoneStr, EPOCH_ZERO>>) =>
        /\ cached_params_hash # NoneStr
        /\ last_computation_time >= run.before.last_computation_time
        /\ last_computation_time > EPOCH_ZERO

C17_Witness ==
  /\ run.n >= 2
  /\ run.raised
  /\ run.auto_compute
  /\ SchedulerStateBefore # <<NoneStr, EPOCH_ZERO>>
  /\ SchedulerState = SchedulerStateBefore
  /\ Fingerprint(run.params) # cached_params_hash

\* the batches the session holds or presents
VisibleBatches ==
  (IF run.n >= 1 /\ run.trajectories # None THEN {Presented} ELSE {})
    \cup (IF cached_trajectories # None THEN {cached_trajectories[1]} ELSE {})
    \cup {solve_cache[P][1].value : P \in {Q \in ParamChoices : solve_cache[Q] # None}}
    \cup {e.key : e \in plot_cache}

\* the number of points of a solver result that reported success and was
\* not cut short: the full evaluation grid, or the least number accepted
SuccessfulLength(tr) ==
  \/ tr.t = MIN_POINTS + 1
  \/ \E q \in Qualities :
        /\ quality_settings(q).method = tr.ode.method
        /\ tr.t = num_points(tr.ode.t_end, quality_settings(q))

\* C18: every trajectory of every stored or presented batch has more than
\* 10 time points, position and velocity sequences of that same length,
\* and the length of a solver result that reported success; a result at
\* or below the threshold is in no batch.
C18_StoredTrajectoriesMeetThreshold ==
  \A batch \in VisibleBatches :
    \A k \in 1..Len(batch) :
      /\ batch[k].t > MIN_POINTS
      /\ batch[k].x = batch[k].t
      /\ batch[k].v = batch[k].t
      /\ SuccessfulLength(batch[k])

C18_Witness ==
  /\ run.solved
  /\ run.solver_calls = 8
  /\ run.failed = 3
  /\ Len(Presented) = 5
  /\ Presented[2].t = MIN_POINTS + 1
  /\ Presented[1].t > MIN_POINTS + 1
  /\ cached_trajectories = Some(Presented)

\* the latest run has the parameters of the run before it, which stored a
\* batch that is not empty; the function-cache entry of that batch is
\* still live; the figure's entry for that batch is missing or has expired
C19_Case ==
  /\ run.n >= 2
  /\ run.params = run.prior.params
  /\ run.prior.stored
  /\ run.before.cached_trajectories # None
  /\ run.before.cached_trajectories[1] # <<>>
  /\ run.entry # None
  /\ run.start < run.entry[1].created + SolveTtlTenths
  /\ run.entry[1].value = run.before.cached_trajectories[1]
  /\ \A e \in run.plot_before : run.end >= e.created + PlotTtlTenths

\* C19: the figure and the batch are cached apart, the figure for 10
\* minutes and the batch for 30: a run with unchanged parameters whose
\* batch is still valid and whose figure has expired or is missing renders
\* the figure again from the stored batch and does not invoke the solver.
C19_ExpiredPlotRenderedFromBatch ==
  /\ PLOT_TTL = 600 /\ SOLVE_TTL = 1800
  /\ C19_Case =>
        /\ run.solver_calls = 0
        /\ ~run.solved
        /\ ~run.raised
        /\ Presented = run.before.cached_trajectories[1]
        /\ run.rendered
        /\ [key |-> Presented, created |-> run.end] \in plot_cache
        /\ solve_cache[run.params] = run.entry

C19_Witness ==
  /\ C19_Case
  /\ run.plot_before # {}
  /\ run.start - run.prior.end = PlotTtlTenths
  /\ run.auto_compute
  /\ run.rendered
  /\ ~run.entered

\* the body of solve_trajectories_optimized is being executed
InProgress == frame.pc = "loop"

\* batch is what a completed execution of the body returns for P
Complete(batch, P) ==
  \E pat \in SolverPatterns :
    batch = solve_trajectories_optimized(P.num_trajectories, P.epsilon,
                                         P.max_time, P.computation_quality, pat)

\* C20: a batch becomes visible only after the solver loop over all of its
\* initial conditions has completed.  While the body is being executed no
\* function-cache entry exists for its parameters, the session state holds
\* the batch it held when the run started and nothing has been handed to
\* the display code; every batch in the function cache, in the session
\* state or handed on is the result of a completed loop; and what a
\* function-cache hit returns was put there by a completed execution.
C20_BatchVisibleOnlyWhenComplete ==
  /\ InProgress =>
        /\ Lookup(frame.params, now) = None
        /\ solve_cache[frame.params] = None
        /\ cached_trajectories = frame.before
        /\ frame.shown = None
  /\ (~InProgress /\ frame.calls # <<>>) =>
        /\ frame.calls = [k \in 1..frame.params.num_trajectories |-> k]
        /\ frame.trajectories =
              solve_trajectories_optimized(
                frame.params.num_trajectories, frame.params.epsilon,
                frame.params.max_time, frame.params.computation_quality,
                frame.pat)
  /\ \A P \in ParamChoices :
        solve_cache[P] # None => Complete(solve_cache[P][1].value, P)
  /\ cached_trajectories # None =>
        \E P \in ParamChoices : Complete(cached_trajectories[1], P)
  /\ (frame.shown # None /\ frame.shown[1] # <<>>) =>
        \E P \in ParamChoices : Complete(frame.shown[1], P)
  /\ frame.hit => Complete(frame.trajectories, frame.params)

\* a second computation under way, some of its calls made, while the
\* session holds the batch of the first
C20_Witness ==
  /\ InProgress
  /\ runs = 2
  /\ Len(frame.calls) > 0
  /\ Len(frame.calls) < frame.params.num_trajectories
  /\ Len(frame.trajectories) > 0
  /\ frame.before # None
  /\ Len(frame.before[1]) > 0
  /\ cached_trajectories = frame.before

\* the function-cache entries that are live now
LiveKeys == {P \in ParamChoices : EntryLive(solve_cache[P], now)}

\* C23: the function cache holds at most one live batch entry per
\* fingerprint: two parameter sets with live entries and the same
\* fingerprint are the same set; and after a run whose computation
\* returned, the entry of the presented batch is the one of the parameters
\* whose fingerprint the session stores.
C23_OneLiveEntryPerFingerprint ==
  /\ \A P, Q \in LiveKeys : Fingerprint(P) = Fingerprint(Q) => P = Q
  /\ (run.n >= 1 /\ run.entered /\ ~run.raised) =>
        /\ run.params \in LiveKeys
        /\ solve_cache[run.params][1].value = Presented
        /\ cached_params_hash = Fingerprint(run.params)
        /\ \A Q \in LiveKeys :
              Fingerprint(Q) = cached_params_hash => Q = run.params

C23_Witness ==
  /\ Cardinality(LiveKeys) = 3
  /\ run.solved
  /\ run.params \in LiveKeys
  /\ cached_params_hash = Fingerprint(run.params)
  /\ Len(Presented) > 0

\* C24: the three session fields are set together: the stored batch is
\* None exactly when the stored fingerprint is None and exactly when
\* last_computation_time is 0; and when they are set, the stored batch is
\* a result of the solver for parameters with the stored fingerprint.
C24_SessionFieldsCoherent ==
  /\ (cached_trajectories = None) = (cached_params_hash = NoneStr)
  /\ (cached_params_hash = NoneStr) = (last_computation_time = EPOCH_ZERO)
  /\ cached_trajectories # None =>
        \E P \in ParamChoices :
          /\ Fingerprint(P) = cached_params_hash
          /\ Complete(cached_trajectories[1], P)
          /\ \A k \in 1..Len(cached_trajectories[1]) :
                /\ cached_trajectories[1][k].ode.epsilon = P.epsilon
                /\ cached_trajectories[1][k].ode.t_end = P.max_time

C24_Witness ==
  /\ run.n = 3
  /\ run.cache_hit
  /\ run.before.cached_params_hash # NoneStr
  /\ run.before.cached_params_hash # cached_params_hash
  /\ cached_params_hash = Fingerprint(run.params)
  /\ Len(cached_trajectories[1]) > 0

\* the latest run is an auto-mode run whose computation did not raise
C25_Case == run.n >= 1 /\ run.auto_compute /\ ~run.raised

\* C25: at the end of an auto-mode run whose computation did not raise,
\* the stored fingerprint is that of the run's parameters, or the run
\* started no more than 0.5 s after the last computation: a batch for
\* other parameters is presented only inside that interval.
C25_StaleOnlyInsideInterval ==
  C25_Case =>
    /\ \/ cached_params_hash = Fingerprint(run.params)
       \/ run.start - run.before.last_computation_time <= DEBOUNCE
    /\ cached_params_hash = Fingerprint(run.params) =>
          Complete(Presented, run.params)

C25_Witness ==
  /\ C25_Case
  /\ cached_params_hash # Fingerprint(run.params)
  /\ run.start - run.before.last_computation_time = DEBOUNCE
  /\ ~Complete(Presented, run.params)
  /\ Len(Presented) > 0

\* C26: the status shown with a batch that is not empty is Fresh exactly
\* when the run went through the compute step and Cached exactly when it
\* took the reuse branch.
C26_StatusFollowsPath ==
  (run.n >= 1 /\ run.trajectories # None /\ Presented # <<>>) =>
    /\ (run.status = "Fresh") = run.entered
    /\ (run.status = "Cached") = ~run.entered

\* the latest run is a run of the burst that follows a computation
C22_Case ==
  /\ run.n >= 2
  /\ run.auto_compute
  /\ run.params # run.prior.params
  /\ run.start - run.prior.end < DEBOUNCE
  /\ run.before.cached_trajectories # None

C21_Case ==
  /\ C22_Case
  /\ run.n >= 3

\* C21, its first half, for the executions that consist of rapid changes in
\* auto mode: during a burst the solver is not invoked for intermediate
\* values, that is, a run whose parameters the next run of the burst
\* replaces did not run the solver.  (Its second half, that the value the
\* user pauses on is eventually computed, needs a script run after the
\* interval; the script starts none by itself.)
C21_NoSolveForIntermediateValue ==
  C21_Case => ~run.prior.solved

====
